---- MODULE Spec2Model ----
(***************************************************************************)
(* A model of app.py: the interactive chat client built on an MCPAgent.    *)
(* The state is the configuration (in memory and on disk), the agent's     *)
(* conversation history, the archive directory, the tool client's session  *)
(* collection, the console and the position of run_memory_chat.            *)
(*                                                                         *)
(* Text is modelled character by character: a Python str is a sequence of  *)
(* one-character strings.  "SUP2" stands for the single character U+00B2   *)
(* (superscript two), a character for which str.isdigit() is true and      *)
(* int() raises ValueError.                                                *)
(***************************************************************************)
EXTENDS Integers, Sequences, FiniteSets, TLC

(***************************************************************************)
(* Bounds of the model.                                                    *)
(***************************************************************************)
\* the last second of the wall clock that the model explores
MaxTime == 1
\* the largest number of user/assistant exchanges the agent's memory holds
MaxExchanges == 1
\* the number of tool servers named by the tool configuration file
MaxSessions == 1

(***************************************************************************)
(* Python text operations.                                                 *)
(***************************************************************************)
Uppers == <<"A", "B", "C", "D", "E", "F", "G", "H", "I", "J", "K", "L", "M", "N", "O", "P", "Q", "R", "S", "T", "U", "V", "W", "X", "Y", "Z">>
Lowers == <<"a", "b", "c", "d", "e", "f", "g", "h", "i", "j", "k", "l", "m", "n", "o", "p", "q", "r", "s", "t", "u", "v", "w", "x", "y", "z">>
DecimalChars == <<"0", "1", "2", "3", "4", "5", "6", "7", "8", "9">>

\* str.lower() on one character
LowerChar(c) ==
    IF \E i \in 1..Len(Uppers) : Uppers[i] = c
    THEN Lowers[CHOOSE i \in 1..Len(Uppers) : Uppers[i] = c]
    ELSE c

RECURSIVE Lower(_)
\* str.lower()
Lower(s) == IF s = <<>> THEN <<>> ELSE <<LowerChar(Head(s))>> \o Lower(Tail(s))

\* the characters str.split() treats as separators
IsSpace(c) == c \in {" ", "\t"}

RECURSIVE SplitAcc(_, _, _)
SplitAcc(s, cur, acc) ==
    IF s = <<>>
    THEN (IF cur = <<>> THEN acc ELSE Append(acc, cur))
    ELSE IF IsSpace(Head(s))
         THEN SplitAcc(Tail(s), <<>>, IF cur = <<>> THEN acc ELSE Append(acc, cur))
         ELSE SplitAcc(Tail(s), Append(cur, Head(s)), acc)

\* str.split(): the maximal runs of non-whitespace characters, in order
Split(s) == SplitAcc(s, <<>>, <<>>)

RECURSIVE LStrip(_)
\* str.lstrip()
LStrip(s) == IF s # <<>> /\ IsSpace(Head(s)) THEN LStrip(Tail(s)) ELSE s

\* a variant that looks for the '/' after leading blanks
StartsWithSlash_AfterBlanks(s) == Len(LStrip(s)) > 0 /\ LStrip(s)[1] = "/"

\* str.startswith('/')
StartsWithSlash(s) == Len(s) > 0 /\ s[1] = "/"

\* a character of Unicode category Nd (the ASCII digits, in this alphabet)
IsDecimalChar(c) == \E i \in 1..Len(DecimalChars) : DecimalChars[i] = c

\* a character with the Unicode digit property: Nd, and others such as U+00B2
IsDigitChar(c) == IsDecimalChar(c) \/ c = "SUP2"

\* str.isdigit(): non-empty and every character is a digit
IsDigit(s) == Len(s) > 0 /\ \A i \in 1..Len(s) : IsDigitChar(s[i])

DigitVal(c) == (CHOOSE i \in 1..Len(DecimalChars) : DecimalChars[i] = c) - 1

\* int(s) succeeds exactly on the texts made of decimal characters
IntParses(s) == Len(s) > 0 /\ \A i \in 1..Len(s) : IsDecimalChar(s[i])

RECURSIVE IntAcc(_, _)
IntAcc(s, acc) == IF s = <<>> THEN acc ELSE IntAcc(Tail(s), 10 * acc + DigitVal(Head(s)))

\* int(s), for a text on which it succeeds
IntOf(s) == IntAcc(s, 0)

RECURSIVE IntText(_)
\* str(n) for n >= 0, also the JSON text of an integer
IntText(n) ==
    IF n < 10 THEN <<DecimalChars[n + 1]>>
    ELSE IntText(n \div 10) \o <<DecimalChars[(n % 10) + 1]>>

\* a number printed with two digits, as %H, %M and %S do
Pad2(n) == <<DecimalChars[(n \div 10) + 1], DecimalChars[(n % 10) + 1]>>

(***************************************************************************)
(* Python values handled by the configuration: int, bool and str.  Every   *)
(* value is a record of the same shape so that values of different types   *)
(* can be compared.                                                        *)
(***************************************************************************)
PyInt(n) == [t |-> "int", n |-> n, s |-> <<>>]
PyBool(b) == [t |-> "bool", n |-> IF b THEN 1 ELSE 0, s |-> <<>>]
PyStr(s) == [t |-> "str", n |-> 0, s |-> s]

TrueText == <<"t", "r", "u", "e">>
FalseText == <<"f", "a", "l", "s", "e">>

(***************************************************************************)
(* json.dump and json.load on scalars, at the level of the JSON text.      *)
(***************************************************************************)
RECURSIVE Escape(_)
\* the body of a JSON string: '"' and '\' are written with a backslash
Escape(s) ==
    IF s = <<>> THEN <<>>
    ELSE (IF Head(s) \in {"\"", "\\"} THEN <<"\\", Head(s)>> ELSE <<Head(s)>>)
         \o Escape(Tail(s))

RECURSIVE Unescape(_)
Unescape(s) ==
    IF s = <<>> THEN <<>>
    ELSE IF Head(s) = "\\" /\ Len(s) > 1
         THEN <<s[2]>> \o Unescape(Tail(Tail(s)))
         ELSE <<Head(s)>> \o Unescape(Tail(s))

\* json.dumps of a str
DumpStr(s) == <<"\"">> \o Escape(s) \o <<"\"">>

\* json.loads of the text of a JSON string
LoadStr(j) == Unescape(SubSeq(j, 2, Len(j) - 1))

\* json.dumps of an int, a bool or a str
DumpValue(v) ==
    CASE v.t = "int" -> IntText(v.n)
      [] v.t = "bool" -> (IF v.n = 1 THEN TrueText ELSE FalseText)
      [] v.t = "str" -> DumpStr(v.s)

\* json.loads of the text of a JSON scalar
LoadValue(j) ==
    IF Head(j) = "\"" THEN PyStr(LoadStr(j))
    ELSE IF j = TrueText THEN PyBool(TRUE)
    ELSE IF j = FalseText THEN PyBool(FALSE)
    ELSE PyInt(IntOf(j))

\* json.dump of a dict of scalars: the set of its "key": value members
DumpDict(d) == { <<DumpStr(k), DumpValue(d[k])>> : k \in DOMAIN d }

\* json.load of a JSON object of scalars
LoadDict(doc) ==
    [k \in { LoadStr(m[1]) : m \in doc } |->
        LoadValue((CHOOSE m \in doc : LoadStr(m[1]) = k)[2])]

\* d[key] = value on a dict
DictSet(d, key, value) ==
    [k \in DOMAIN d \cup {key} |-> IF k = key THEN value ELSE d[k]]

(***************************************************************************)
(* Texts of the program.                                                   *)
(***************************************************************************)
K_model == <<"m", "o", "d", "e", "l">>
K_max_steps == <<"m", "a", "x", "_", "s", "t", "e", "p", "s">>
K_history_file == <<"h", "i", "s", "t", "o", "r", "y", "_", "f", "i", "l", "e">>
K_config_file == <<"c", "o", "n", "f", "i", "g", "_", "f", "i", "l", "e">>

\* ChatConfig.default_config
default_config ==
    (K_model :> PyStr(<<"q", "w", "e", "n", "-", "q", "w", "q", "-", "3", "2", "b">>)) @@
    (K_max_steps :> PyInt(15)) @@
    (K_history_file :> PyStr(<<"c", "h", "a", "t", "_", "h", "i", "s", "t", "o", "r", "y">>)) @@
    (K_config_file :> PyStr(<<"b", "r", "o", "w", "s", "e", "r", "_", "m", "c", "p", ".", "j", "s", "o", "n">>))

W_exit == <<"e", "x", "i", "t">>
W_quit == <<"q", "u", "i", "t">>
W_clear == <<"c", "l", "e", "a", "r">>
W_export == <<"e", "x", "p", "o", "r", "t">>
W_import == <<"i", "m", "p", "o", "r", "t">>
W_config == <<"c", "o", "n", "f", "i", "g">>
W_help == <<"h", "e", "l", "p">>

\* the roles of the two messages the agent's memory records for an exchange
RoleUser == <<"u", "s", "e", "r">>
RoleAssistant == <<"a", "s", "s", "i", "s", "t", "a", "n", "t">>
\* the texts agent.run may return
Replies == { <<"o", "k">> }

(***************************************************************************)
(* The archive directory chat_histories.                                   *)
(***************************************************************************)
\* datetime.now().strftime("%Y%m%d_%H%M%S"): now counts the seconds of one day
FormatTimestamp(t) ==
    <<"2", "0", "2", "6", "0", "1", "0", "1", "_">> \o Pad2(t \div 3600) \o Pad2((t \div 60) % 60) \o Pad2(t % 60)

\* history_path / f"chat_history_{timestamp}.json", as a name in the directory
ArchiveName(timestamp) == <<"c", "h", "a", "t", "_", "h", "i", "s", "t", "o", "r", "y", "_">> \o timestamp \o <<".", "j", "s", "o", "n">>

\* a file whose content json.load rejects
Malformed == [parses |-> FALSE, hasHistory |-> FALSE, timestamp |-> <<>>, history |-> <<>>]

DumpTurn(m) == [role |-> DumpStr(m.role), content |-> DumpStr(m.content)]
LoadTurn(j) == [role |-> LoadStr(j.role), content |-> LoadStr(j.content)]

\* a variant that leaves out the last message of the history
DumpHistory_DropsLast(h) == [i \in 1..(Len(h) - 1) |-> DumpTurn(h[i])]

RECURSIVE DumpHistory(_)
DumpHistory(h) == IF h = <<>> THEN <<>> ELSE <<DumpTurn(Head(h))>> \o DumpHistory(Tail(h))

RECURSIVE LoadHistory(_)
LoadHistory(j) == IF j = <<>> THEN <<>> ELSE <<LoadTurn(Head(j))>> \o LoadHistory(Tail(j))

\* json.dump({"timestamp": timestamp, "history": history})
DumpArchive(timestamp, h) ==
    [parses |-> TRUE, hasHistory |-> TRUE,
     timestamp |-> DumpStr(timestamp), history |-> DumpHistory(h)]

\* a variant that never rewrites a file that exists
WriteFile_KeepsExisting(dir, name, content) ==
    [f \in DOMAIN dir \cup {name} |-> IF f \in DOMAIN dir THEN dir[f] ELSE content]

\* the directory with file `name` written
WriteFile(dir, name, content) ==
    [f \in DOMAIN dir \cup {name} |-> IF f = name THEN content ELSE dir[f]]

\* files found in chat_histories when the program starts: one that is not
\* JSON and one JSON object that has a timestamp and no history
InitialFiles ==
    (<<"b", "a", "d", ".", "j", "s", "o", "n">> :> Malformed) @@
    (<<"n", "o", "h", "i", "s", "t", ".", "j", "s", "o", "n">> :>
        [parses |-> TRUE, hasHistory |-> FALSE,
         timestamp |-> DumpStr(FormatTimestamp(0)), history |-> <<>>])

(***************************************************************************)
(* The lines the user types.                                               *)
(***************************************************************************)
\* lines that are no commands: the empty line, and a '/' after a blank
ChatLines == {
    <<>>,
    <<" ", "/", "e", "x", "i", "t">> }

\* command lines that touch neither the configuration nor the archive
CommonLines == {
    <<"/", "e", "x", "i", "t">>,
    <<"/", "E", "X", "I", "T">>,
    <<"/", "Q", "u", "i", "t">>,
    <<"/", "Q", "U", "I", "T">>,
    <<"/", "e", "x", "i", "t", " ", "n", "o", "w">>,
    <<"/", "h", "e", "l", "p">>,
    <<"/", "f", "o", "o">>,
    <<"/">>,
    <<"/", " ", "\t">> }

SettingsLines == {
    <<"/", "c", "o", "n", "f", "i", "g">>,
    <<"/", "c", "o", "n", "f", "i", "g", " ", "t", "i", "m", "e", "o", "u", "t">>,
    <<"/", "c", "o", "n", "f", "i", "g", " ", "t", "i", "m", "e", "o", "u", "t", " ", "3", "0">>,
    <<"/", "c", "o", "n", "f", "i", "g", " ", "t", "i", "m", "e", "o", "u", "t", " ", "3", "0", " ", "e", "x", "t", "r", "a">>,
    <<"/", "c", "o", "n", "f", "i", "g", " ", "d", "e", "b", "u", "g", " ", "T", "R", "U", "E">>,
    <<"/", "c", "o", "n", "f", "i", "g", " ", "k", " ", "SUP2">> }

\* updates of the options the agent was constructed from
AgentSettingsLines == {
    <<"/", "c", "o", "n", "f", "i", "g", " ", "m", "a", "x", "_", "s", "t", "e", "p", "s", " ", "0", "0", "7">>,
    <<"/", "c", "o", "n", "f", "i", "g", " ", "m", "o", "d", "e", "l", " ", "x", "\"", "y">> }

ArchiveLines == {
    <<"/", "C", "L", "E", "A", "R">>,
    <<"/", "e", "x", "p", "o", "r", "t">>,
    <<"/", "i", "m", "p", "o", "r", "t">>,
    <<"/", "i", "m", "p", "o", "r", "t", " ", "b", "a", "d", ".", "j", "s", "o", "n">>,
    <<"/", "i", "m", "p", "o", "r", "t", " ", "n", "o", "h", "i", "s", "t", ".", "j", "s", "o", "n">>,
    <<"/", "i", "m", "p", "o", "r", "t", " ", "n", "o", "n", "e", ".", "j", "s", "o", "n">>,
    <<"/", "i", "m", "p", "o", "r", "t", " ", "c", "h", "a", "t", "_", "h", "i", "s", "t", "o", "r", "y", "_", "2", "0", "2", "6", "0", "1", "0", "1", "_", "0", "0", "0", "0", "0", "0", ".", "j", "s", "o", "n">> }

\* what the user of one run types: a run that chats and changes settings, a
\* run that chats and changes the agent's options, or a run that chats and
\* works with the archive
Scripts == {
    ChatLines \cup CommonLines \cup SettingsLines,
    ChatLines \cup CommonLines \cup AgentSettingsLines,
    ChatLines \cup CommonLines \cup ArchiveLines }

(***************************************************************************)
(* The state.                                                              *)
(***************************************************************************)
VARIABLES
    pc,          \* the position of the program
    outcome,     \* how the chat loop or the start-up ended, "running" before
    shown,       \* the last message printed on the console
    apiKey,      \* whether GROQ_API_KEY is set in the environment
    configFile,  \* chat_config.json on disk
    config,      \* ChatConfig.config
    clientDefined, \* 'client' in locals()
    sessions,    \* the number of sessions in client.sessions
    closeCalls,  \* the number of calls of client.close_all_sessions
    agent,       \* the model, max_steps and tool configuration the agent was built with
    history,     \* agent.conversation_history
    files,       \* the files of the directory chat_histories
    now,         \* the wall clock, in seconds
    typed,       \* the lines the user of this run types
    user_input,  \* the line last read by console.input
    running      \* the arguments of the calls of agent.run that have not returned

vars == <<pc, outcome, shown, apiKey, configFile, config, clientDefined, sessions,
          closeCalls, agent, history, files, now, typed, user_input,
          running>>

NoConfig == <<>>
NoAgent ==
    [built |-> FALSE, model |-> PyStr(<<>>), max_steps |-> PyInt(0),
     config_file |-> PyStr(<<>>)]

FileAbsent == [st |-> "absent", doc |-> {}]
FileCorrupt == [st |-> "corrupt", doc |-> {}]
FileWith(d) == [st |-> "ok", doc |-> DumpDict(d)]

\* a configuration written by an earlier run that lacks the key config_file
PartialConfig == (K_model :> PyStr(<<"m">>)) @@ (K_max_steps :> PyInt(5))

Init ==
    /\ pc = "start"
    /\ outcome = "running"
    /\ shown = "none"
    /\ apiKey \in BOOLEAN
    /\ configFile \in {FileAbsent, FileCorrupt, FileWith(default_config), FileWith(PartialConfig)}
    /\ config = NoConfig
    /\ clientDefined = FALSE
    /\ sessions = 0
    /\ closeCalls = 0
    /\ agent = NoAgent
    /\ history = <<>>
    /\ files = InitialFiles
    /\ now = 0
    /\ typed \in Scripts
    /\ user_input = <<>>
    /\ running = <<>>

(***************************************************************************)
(* Start-up.                                                               *)
(***************************************************************************)
\* the outcomes of writing a file: written, open() refused, or the write
\* broke off after open() had truncated the file
WriteOutcomes == {"ok", "denied", "truncated"}

\* a variant that falls back to the defaults on any failure to load
LoadConfig_DefaultsOnAnyError ==
    /\ pc = "start"
    /\ \/ /\ configFile.st = "ok"
          /\ config' = LoadDict(configFile.doc)
          /\ pc' = "checkkey"
          /\ UNCHANGED <<configFile, shown, outcome>>
       \/ /\ configFile.st \in {"absent", "corrupt"}
          /\ \E io \in WriteOutcomes :
                \/ /\ io = "ok"
                   /\ configFile' = FileWith(default_config)
                   /\ config' = default_config
                   /\ pc' = "checkkey"
                   /\ UNCHANGED <<shown, outcome>>
                \/ /\ io # "ok"
                   /\ configFile' = IF io = "denied" THEN configFile ELSE FileCorrupt
                   /\ pc' = "done"
                   /\ shown' = "unexpected"
                   /\ outcome' = "unexpected"
                   /\ UNCHANGED config
    /\ UNCHANGED <<typed, apiKey, clientDefined, sessions, closeCalls, agent, history,
                   files, now, user_input, running>>

\* ChatConfig(): load_config, and save_config of the defaults when the file
\* is absent.  A failure is raised out of run_memory_chat to __main__.
LoadConfig ==
    /\ pc = "start"
    /\ \/ /\ configFile.st = "ok"
          /\ config' = LoadDict(configFile.doc)
          /\ pc' = "checkkey"
          /\ UNCHANGED <<configFile, shown, outcome>>
       \/ /\ configFile.st = "absent"
          /\ \E io \in WriteOutcomes :
                \/ /\ io = "ok"
                   /\ configFile' = FileWith(default_config)
                   /\ config' = default_config
                   /\ pc' = "checkkey"
                   /\ UNCHANGED <<shown, outcome>>
                \/ /\ io # "ok"
                   /\ configFile' = IF io = "denied" THEN configFile ELSE FileCorrupt
                   /\ pc' = "done"
                   /\ shown' = "unexpected"
                   /\ outcome' = "unexpected"
                   /\ UNCHANGED config
       \/ /\ configFile.st = "corrupt"
          /\ pc' = "done"
          /\ shown' = "unexpected"
          /\ outcome' = "unexpected"
          /\ UNCHANGED <<configFile, config>>
    /\ UNCHANGED <<typed, apiKey, clientDefined, sessions, closeCalls, agent, history,
                   files, now, user_input, running>>

\* a variant that reports the missing key and goes on
CheckApiKey_GoesOn ==
    /\ pc = "checkkey"
    /\ pc' = "construct"
    /\ shown' = (IF apiKey THEN "initializing" ELSE "nokey")
    /\ UNCHANGED <<outcome, typed, apiKey, configFile, config, clientDefined, sessions,
                   closeCalls, agent, history, files, now, user_input, running>>

\* the check of GROQ_API_KEY
CheckApiKey ==
    /\ pc = "checkkey"
    /\ IF apiKey
       THEN pc' = "construct" /\ shown' = "initializing" /\ UNCHANGED outcome
       ELSE pc' = "done" /\ shown' = "nokey" /\ outcome' = "nokey"
    /\ UNCHANGED <<typed, apiKey, configFile, config, clientDefined, sessions, closeCalls,
                   agent, history, files, now, user_input, running>>

\* the keys the construction reads from the configuration, in this order
HasKey(d, k) == k \in DOMAIN d

\* MCPClient.from_config_file, ChatGroq, MCPAgent and ChatSession: any of
\* them may raise; a missing key raises KeyError at the line that reads it
Construct ==
    /\ pc = "construct"
    /\ \/ \* from_config_file raises, or config["config_file"] does
          /\ pc' = "finally" /\ shown' = "fatal" /\ outcome' = "fatal"
          /\ UNCHANGED <<clientDefined, agent>>
       \/ \* the client is constructed; the LLM, the agent or the session raises
          /\ HasKey(config, K_config_file)
          /\ clientDefined' = TRUE
          /\ pc' = "finally" /\ shown' = "fatal" /\ outcome' = "fatal"
          /\ UNCHANGED agent
       \/ /\ HasKey(config, K_config_file)
          /\ HasKey(config, K_model)
          /\ HasKey(config, K_max_steps)
          /\ clientDefined' = TRUE
          /\ agent' = [built |-> TRUE, model |-> config[K_model],
                       max_steps |-> config[K_max_steps],
                       config_file |-> config[K_config_file]]
          /\ pc' = "await" /\ shown' = "banner"
          /\ UNCHANGED outcome
    /\ UNCHANGED <<typed, apiKey, configFile, config, sessions, closeCalls, history,
                   files, now, user_input, running>>

(***************************************************************************)
(* The chat loop.                                                          *)
(***************************************************************************)
\* console.input: the prompt is printed and one line is read
ReadInput ==
    /\ pc = "await"
    /\ UNCHANGED running
    /\ \E line \in typed : user_input' = line
    /\ pc' = "routing"
    /\ shown' = "prompt"
    /\ UNCHANGED <<outcome, typed, apiKey, configFile, config, clientDefined, sessions,
                   closeCalls, agent, history, files, now>>

\* console.input at the end of the input: EOFError, an Exception
InputEOF ==
    /\ pc = "await"
    /\ pc' = "finally" /\ shown' = "fatal" /\ outcome' = "fatal"
    /\ UNCHANGED <<typed, apiKey, configFile, config, clientDefined, sessions,
                   closeCalls, agent, history, files, now, user_input, running>>

\* KeyboardInterrupt while a line is awaited or the agent runs: it is no
\* Exception, so only the finally clause runs
Interrupt ==
    /\ pc \in {"await", "executing"}
    /\ pc' = "finally" /\ outcome' = "interrupt"
    /\ UNCHANGED <<user_input, running>>
    /\ UNCHANGED <<shown, typed, apiKey, configFile, config, clientDefined, sessions,
                   closeCalls, agent, history, files, now>>

\* a second of wall-clock time passes while the loop waits for a line
Tick ==
    /\ pc = "await"
    /\ now < MaxTime
    /\ now' = now + 1
    /\ UNCHANGED <<pc, outcome, shown, typed, apiKey, configFile, config, clientDefined,
                   sessions, closeCalls, agent, history, files, user_input, running>>

\* user_input[1:].split()
CmdParts(line) == Split(Tail(line))

\* a variant that compares the command word as it was typed
Branch_CaseSensitive(parts) ==
    LET cmd == parts[1] IN
    IF cmd \in {W_exit, W_quit} THEN "exit"
    ELSE IF cmd = W_clear THEN "clear"
    ELSE IF cmd = W_export THEN "export"
    ELSE IF cmd = W_import /\ Len(parts) > 1 THEN "import"
    ELSE IF cmd = W_config /\ Len(parts) > 2 THEN "config"
    ELSE IF cmd = W_help THEN "help"
    ELSE "unknown"

\* a variant that answers a command with missing arguments by the help text
Branch_HelpOnMissingArgs(parts) ==
    LET cmd == Lower(parts[1]) IN
    IF cmd \in {W_exit, W_quit} THEN "exit"
    ELSE IF cmd = W_clear THEN "clear"
    ELSE IF cmd = W_export THEN "export"
    ELSE IF cmd = W_import THEN (IF Len(parts) > 1 THEN "import" ELSE "help")
    ELSE IF cmd = W_config THEN (IF Len(parts) > 2 THEN "config" ELSE "help")
    ELSE IF cmd = W_help THEN "help"
    ELSE "unknown"

\* the branch of the if/elif chain taken for a non-empty cmd_parts
Branch(parts) ==
    LET cmd == Lower(parts[1]) IN
    IF cmd \in {W_exit, W_quit} THEN "exit"
    ELSE IF cmd = W_clear THEN "clear"
    ELSE IF cmd = W_export THEN "export"
    ELSE IF cmd = W_import /\ Len(parts) > 1 THEN "import"
    ELSE IF cmd = W_config /\ Len(parts) > 2 THEN "config"
    ELSE IF cmd = W_help THEN "help"
    ELSE "unknown"

\* the line is a command line whose handling takes branch b
Routes(b) ==
    /\ pc = "routing"
    /\ StartsWithSlash(user_input)
    /\ CmdParts(user_input) # <<>>
    /\ Branch(CmdParts(user_input)) = b

\* the loop goes on to the next console.input
Continue == pc' = "await" /\ UNCHANGED outcome

\* an Exception reaches the handler around the loop
Fatal == pc' = "finally" /\ shown' = "fatal" /\ outcome' = "fatal"

\* cmd_parts[0] on a line that holds nothing after the '/': IndexError
CmdNoWord ==
    /\ pc = "routing"
    /\ StartsWithSlash(user_input)
    /\ CmdParts(user_input) = <<>>
    /\ Fatal
    /\ UNCHANGED <<user_input, running>>
    /\ UNCHANGED <<typed, apiKey, configFile, config, clientDefined, sessions,
                   closeCalls, agent, history, files, now>>

CmdExit ==
    /\ Routes("exit")
    /\ pc' = "finally" /\ shown' = "ending" /\ outcome' = "exit"
    /\ UNCHANGED <<user_input, running>>
    /\ UNCHANGED <<typed, apiKey, configFile, config, clientDefined, sessions,
                   closeCalls, agent, history, files, now>>

\* a variant that prints the message and leaves the agent's memory alone
CmdClear_OnlyPrints ==
    /\ Routes("clear")
    /\ UNCHANGED history
    /\ shown' = "cleared"
    /\ Continue
    /\ UNCHANGED <<user_input, running>>
    /\ UNCHANGED <<typed, apiKey, configFile, config, clientDefined, sessions,
                   closeCalls, agent, files, now>>

\* the /clear branch: agent.clear_conversation_history
CmdClear ==
    /\ Routes("clear")
    /\ history' = <<>>
    /\ shown' = "cleared"
    /\ Continue
    /\ UNCHANGED <<user_input, running>>
    /\ UNCHANGED <<typed, apiKey, configFile, config, clientDefined, sessions,
                   closeCalls, agent, files, now>>

\* ChatSession.export_history; a failing write raises into the loop's handler
CmdExport ==
    /\ Routes("export")
    /\ IF history = <<>>
       THEN shown' = "noexport" /\ Continue /\ UNCHANGED files
       ELSE LET timestamp == FormatTimestamp(now)
                filename == ArchiveName(timestamp)
            IN \E io \in WriteOutcomes :
                \/ /\ io = "ok"
                   /\ files' = WriteFile(files, filename, DumpArchive(timestamp, history))
                   /\ shown' = "exported"
                   /\ Continue
                \/ /\ io = "denied"
                   /\ UNCHANGED files
                   /\ Fatal
                \/ /\ io = "truncated"
                   /\ files' = WriteFile(files, filename, Malformed)
                   /\ Fatal
    /\ UNCHANGED <<user_input, running>>
    /\ UNCHANGED <<typed, apiKey, configFile, config, clientDefined, sessions,
                   closeCalls, agent, history, now>>

\* a variant that appends the imported messages to the agent's history
ImportHistory_Appends(dir, filename, h) ==
    IF filename \notin DOMAIN dir THEN [status |-> "importerr", history |-> h]
    ELSE IF ~dir[filename].parses THEN [status |-> "importerr", history |-> h]
    ELSE IF ~dir[filename].hasHistory THEN [status |-> "importerr", history |-> h]
    ELSE [status |-> "imported", history |-> h \o LoadHistory(dir[filename].history)]

\* a variant that empties the agent's history before it reads the file
ImportHistory_ClearsFirst(dir, filename, h) ==
    IF filename \notin DOMAIN dir THEN [status |-> "importerr", history |-> <<>>]
    ELSE IF ~dir[filename].parses THEN [status |-> "importerr", history |-> <<>>]
    ELSE IF ~dir[filename].hasHistory THEN [status |-> "importerr", history |-> <<>>]
    ELSE [status |-> "imported", history |-> LoadHistory(dir[filename].history)]

\* ChatSession.import_history: the status returned and the history the agent
\* holds afterwards
ImportHistory(dir, filename, h) ==
    IF filename \notin DOMAIN dir THEN [status |-> "importerr", history |-> h]
    ELSE IF ~dir[filename].parses THEN [status |-> "importerr", history |-> h]
    ELSE IF ~dir[filename].hasHistory THEN [status |-> "importerr", history |-> h]
    ELSE [status |-> "imported", history |-> LoadHistory(dir[filename].history)]

CmdImport ==
    /\ Routes("import")
    /\ LET result == ImportHistory(files, CmdParts(user_input)[2], history) IN
          /\ history' = result.history
          /\ shown' = result.status
    /\ Continue
    /\ UNCHANGED <<user_input, running>>
    /\ UNCHANGED <<typed, apiKey, configFile, config, clientDefined, sessions,
                   closeCalls, agent, files, now>>

\* the conversion of the value of /config: whether it raises, and the value
Convert(value) ==
    IF IsDigit(value)
    THEN (IF IntParses(value) THEN [raises |-> FALSE, value |-> PyInt(IntOf(value))]
          ELSE [raises |-> TRUE, value |-> PyStr(value)])
    ELSE IF Lower(value) \in {TrueText, FalseText}
         THEN [raises |-> FALSE, value |-> PyBool(Lower(value) = TrueText)]
         ELSE [raises |-> FALSE, value |-> PyStr(value)]

\* a variant that rebuilds the agent's options from the updated configuration
CmdConfig_RebuildsAgent ==
    /\ Routes("config")
    /\ LET key == CmdParts(user_input)[2]
           conv == Convert(CmdParts(user_input)[3])
       IN IF conv.raises
          THEN shown' = "cfgerr_value" /\ UNCHANGED <<config, configFile, agent>>
          ELSE /\ config' = DictSet(config, key, conv.value)
               /\ agent' = [agent EXCEPT !.model = config'[K_model],
                                         !.max_steps = config'[K_max_steps]]
               /\ \E io \in WriteOutcomes :
                    \/ /\ io = "ok"
                       /\ configFile' = FileWith(config')
                       /\ shown' = "updated"
                    \/ /\ io = "denied"
                       /\ UNCHANGED configFile
                       /\ shown' = "cfgerr_io"
                    \/ /\ io = "truncated"
                       /\ configFile' = FileCorrupt
                       /\ shown' = "cfgerr_io"
    /\ Continue
    /\ UNCHANGED <<user_input, running>>
    /\ UNCHANGED <<typed, apiKey, clientDefined, sessions, closeCalls, history,
                   files, now>>

\* the /config branch with ChatConfig.update_config and save_config
CmdConfig ==
    /\ Routes("config")
    /\ LET key == CmdParts(user_input)[2]
           conv == Convert(CmdParts(user_input)[3])
       IN IF conv.raises
          THEN shown' = "cfgerr_value" /\ UNCHANGED <<config, configFile>>
          ELSE /\ config' = DictSet(config, key, conv.value)
               /\ \E io \in WriteOutcomes :
                    \/ /\ io = "ok"
                       /\ configFile' = FileWith(config')
                       /\ shown' = "updated"
                    \/ /\ io = "denied"
                       /\ UNCHANGED configFile
                       /\ shown' = "cfgerr_io"
                    \/ /\ io = "truncated"
                       /\ configFile' = FileCorrupt
                       /\ shown' = "cfgerr_io"
    /\ Continue
    /\ UNCHANGED <<user_input, running>>
    /\ UNCHANGED <<typed, apiKey, clientDefined, sessions, closeCalls, agent, history,
                   files, now>>

CmdHelp ==
    /\ Routes("help")
    /\ shown' = "help"
    /\ Continue
    /\ UNCHANGED <<user_input, running>>
    /\ UNCHANGED <<typed, apiKey, configFile, config, clientDefined, sessions,
                   closeCalls, agent, history, files, now>>

CmdUnknown ==
    /\ Routes("unknown")
    /\ shown' = "unknown"
    /\ Continue
    /\ UNCHANGED <<user_input, running>>
    /\ UNCHANGED <<typed, apiKey, configFile, config, clientDefined, sessions,
                   closeCalls, agent, history, files, now>>

\* a variant that starts agent.run as a background task and reads on
StartChat_InBackground ==
    /\ pc = "routing"
    /\ ~StartsWithSlash(user_input)
    /\ pc' = "await"
    /\ running' = Append(running, user_input)
    /\ shown' = "thinking"
    /\ UNCHANGED <<outcome, typed, apiKey, configFile, config, clientDefined, sessions,
                   closeCalls, agent, history, files, now, user_input>>

\* a line that is no command: agent.run(user_input) is called and awaited
StartChat ==
    /\ pc = "routing"
    /\ ~StartsWithSlash(user_input)
    /\ pc' = "executing"
    /\ running' = <<user_input>>
    /\ shown' = "thinking"
    /\ UNCHANGED <<outcome, typed, apiKey, configFile, config, clientDefined, sessions,
                   closeCalls, agent, history, files, now, user_input>>

\* agent.run returns: the exchange is in the agent's memory, and the client
\* may have opened sessions for the tool servers
AgentReturn ==
    /\ pc = "executing"
    /\ Len(history) + 2 <= 2 * MaxExchanges
    /\ \E reply \in Replies :
          history' = history \o <<[role |-> RoleUser, content |-> running[1]],
                                  [role |-> RoleAssistant, content |-> reply]>>
    /\ \E n \in sessions..MaxSessions : sessions' = n
    /\ shown' = "assistant"
    /\ running' = <<>>
    /\ Continue
    /\ UNCHANGED user_input
    /\ UNCHANGED <<typed, apiKey, configFile, config, clientDefined, closeCalls, agent,
                   files, now>>

\* a variant in which the exception of agent.run reaches the handler around
\* the loop
AgentFail_Propagates ==
    /\ pc = "executing"
    /\ running' = <<>>
    /\ \E n \in sessions..MaxSessions : sessions' = n
    /\ Fatal
    /\ UNCHANGED <<typed, apiKey, configFile, config, clientDefined, closeCalls, agent,
                   history, files, now, user_input>>

\* agent.run raises an Exception
AgentFail ==
    /\ pc = "executing"
    /\ running' = <<>>
    /\ UNCHANGED user_input
    /\ \E n \in sessions..MaxSessions : sessions' = n
    /\ shown' = "error"
    /\ Continue
    /\ UNCHANGED <<typed, apiKey, configFile, config, clientDefined, closeCalls, agent,
                   history, files, now>>

(***************************************************************************)
(* Shutdown.                                                               *)
(***************************************************************************)
\* a variant that closes whenever the client exists
ShouldClose_NoSessionGuard == clientDefined

\* the condition of the finally clause
ShouldClose == clientDefined /\ sessions > 0

\* a variant that closes the sessions only after the exit command
Finally_ClosesOnlyAfterExit ==
    /\ pc = "finally"
    /\ pc' = "done"
    /\ IF ShouldClose /\ outcome = "exit"
       THEN /\ closeCalls' = closeCalls + 1
            /\ sessions' = 0
            /\ shown' = "closed"
       ELSE /\ UNCHANGED <<closeCalls, sessions>>
            /\ shown' = (IF outcome = "interrupt" THEN "interrupt" ELSE shown)
    /\ UNCHANGED <<outcome, typed, apiKey, configFile, config, clientDefined, agent,
                   history, files, now, user_input, running>>

\* the finally clause, and the return to __main__
Finally ==
    /\ pc = "finally"
    /\ pc' = "done"
    /\ IF ShouldClose
       THEN /\ closeCalls' = closeCalls + 1
            /\ \/ sessions' = 0 /\ shown' = (IF outcome = "interrupt" THEN "interrupt" ELSE "closed")
               \/ UNCHANGED sessions /\ shown' = "unexpected"
       ELSE /\ UNCHANGED <<closeCalls, sessions>>
            /\ shown' = (IF outcome = "interrupt" THEN "interrupt" ELSE shown)
    /\ UNCHANGED <<outcome, typed, apiKey, configFile, config, clientDefined, agent,
                   history, files, now, user_input, running>>

(***************************************************************************)
(* Properties.                                                             *)
(***************************************************************************)
\* C1, as stated: when the loop was left by /exit or /quit, close_all_sessions
\* has been called exactly once when the program has ended, whatever the
\* session collection held.
C1_ExitClosesOnce == (pc = "done" /\ outcome = "exit") => closeCalls = 1

\* C1, amended: no call of close_all_sessions is made before the shutdown;
\* the shutdown after /exit or /quit calls it exactly once when the client
\* holds at least one session and not at all when it holds none; nothing is
\* called after the program has ended.
C1_ExitClosesOnceIfSessions ==
    [][ /\ (pc # "finally" => closeCalls' = closeCalls)
        /\ (pc = "finally" /\ outcome = "exit" =>
              /\ pc' = "done"
              /\ closeCalls = 0
              /\ closeCalls' = (IF sessions > 0 THEN 1 ELSE 0)) ]_vars

\* C1 witness: /exit after a chat exchange that opened a session, one call made
C1_Witness ==
    /\ pc = "done" /\ outcome = "exit"
    /\ history # <<>>
    /\ closeCalls = 1

\* C2, as stated: whatever line is read, handling it leads back to awaiting
\* input (or to the pending agent call of a chat turn) unless the line is the
\* exit or quit command.
C2_OnlyExitLeavesLoop ==
    [][ pc = "routing" => (pc' \in {"await", "executing"} \/ outcome' = "exit") ]_vars

\* C3: when agent.run raises on a chat message the error is displayed, the
\* loop is not left, and the program is again awaiting an input line.
C3_AgentFailureKeepsLoop ==
    [][ pc = "executing" /\ outcome' # "interrupt" /\ shown' # "assistant" =>
          /\ shown' = "error"
          /\ pc' = "await"
          /\ outcome' = "running"
          /\ running' = <<>> ]_vars

\* C3 witness: a failed chat turn on the empty line, after which a line is awaited
C3_Witness ==
    /\ pc = "await" /\ shown = "error"
    /\ user_input = <<>>
    /\ outcome = "running"

\* the configuration a fresh ChatConfig reads from the file on disk
Reloaded(file) == LoadDict(file.doc)

\* C4, as stated: whenever a line is awaited, the configuration file holds
\* the configuration that ChatConfig holds in memory.
C4_DiskEqualsMemory ==
    pc = "await" => (configFile.st = "ok" /\ Reloaded(configFile) = config)

\* the value the coercion rules give: an integer for a text of decimal
\* digits, a boolean for true or false in any case, the text otherwise
Coerced(text) ==
    IF text # <<>> /\ \A i \in 1..Len(text) : text[i] \in {"0", "1", "2", "3", "4", "5", "6", "7", "8", "9"}
    THEN PyInt(IntOf(text))
    ELSE IF Lower(text) = TrueText THEN PyBool(TRUE)
    ELSE IF Lower(text) = FalseText THEN PyBool(FALSE)
    ELSE PyStr(text)

\* C5, as stated: after /config <key> <value>, unless the write of the file
\* was reported to have failed, a fresh ChatConfig reads for <key> the value
\* coerced by the rules.
C5_ReloadYieldsCoerced ==
    [][ Routes("config") /\ shown' # "cfgerr_io" =>
          LET key == CmdParts(user_input)[2]
              value == CmdParts(user_input)[3]
          IN /\ configFile'.st = "ok"
             /\ key \in DOMAIN Reloaded(configFile')
             /\ Reloaded(configFile')[key] = Coerced(value) ]_vars

\* C6, as stated: an export of a non-empty history that returns the path of
\* the file has added exactly one file to the archive directory.
C6_ExportAddsOneFile ==
    [][ Routes("export") /\ history # <<>> /\ shown' = "exported" =>
          Cardinality(DOMAIN files') = Cardinality(DOMAIN files) + 1 ]_vars

\* C6, amended: an export of an empty history reports that there is nothing
\* to export and leaves the directory as it is; an export of a non-empty
\* history that returns the path has written exactly the file named by the
\* current second, which is a new file unless an export of the same second
\* created it before, and importing that file into an empty history gives
\* the exported history.
C6_ExportRoundTrip ==
    [][ Routes("export") =>
          /\ (history = <<>> => shown' = "noexport" /\ files' = files)
          /\ (history # <<>> /\ shown' = "exported" =>
                LET name == ArchiveName(FormatTimestamp(now)) IN
                  /\ DOMAIN files' = DOMAIN files \cup {name}
                  /\ \A f \in DOMAIN files \ {name} : files'[f] = files[f]
                  /\ (name \notin DOMAIN files =>
                        Cardinality(DOMAIN files') = Cardinality(DOMAIN files) + 1)
                  /\ ImportHistory(files', name, <<>>)
                        = [status |-> "imported", history |-> history]) ]_vars

\* C6 witness: the file exported in second 0 has been imported and the agent
\* holds the history that file records
C6_Witness ==
    /\ pc = "await" /\ shown = "imported"
    /\ user_input = <<"/", "i", "m", "p", "o", "r", "t", " ", "c", "h", "a", "t", "_", "h", "i", "s", "t", "o", "r", "y", "_", "2", "0", "2", "6", "0", "1", "0", "1", "_", "0", "0", "0", "0", "0", "0", ".", "j", "s", "o", "n">>
    /\ history # <<>>
    /\ ArchiveName(FormatTimestamp(0)) \in DOMAIN files
    /\ history = LoadHistory(files[ArchiveName(FormatTimestamp(0))].history)

\* the directory holds the file, it is JSON and it has a history field
Importable(dir, f) == f \in DOMAIN dir /\ dir[f].parses /\ dir[f].hasHistory

\* C7: an import of a file that is missing, is not JSON or has no history
\* field returns an error status, leaves the agent's history as it was, and
\* the loop goes on to the next line.
C7_FailedImportKeepsHistory ==
    [][ (Routes("import") /\ ~Importable(files, CmdParts(user_input)[2])) =>
          /\ shown' = "importerr"
          /\ history' = history
          /\ pc' = "await"
          /\ outcome' = "running" ]_vars

\* C7 witness: an import of the JSON file without a history field answered by
\* an error while the agent holds a history
C7_Witness ==
    /\ pc = "await" /\ shown = "importerr"
    /\ user_input = <<"/", "i", "m", "p", "o", "r", "t", " ", "n", "o", "h", "i", "s", "t", ".", "j", "s", "o", "n">>
    /\ history # <<>>

\* the line starts with the command marker
BeginsWithMarker(line) == line # <<>> /\ Head(line) = "/"

\* a /config line with fewer than two arguments or an /import line with none
Underspecified(line) ==
    /\ BeginsWithMarker(line)
    /\ Split(Tail(line)) # <<>>
    /\ LET parts == Split(Tail(line)) IN
          \/ Lower(parts[1]) = W_config /\ Len(parts) < 3
          \/ Lower(parts[1]) = W_import /\ Len(parts) < 2

\* C8: a /config line with fewer than two arguments and an /import line
\* without an argument get the notice of an unknown command, change neither
\* the configuration in memory or on disk nor the history, do not invoke the
\* agent, and the loop goes on.
C8_UnderspecifiedIsUnknown ==
    [][ pc = "routing" /\ Underspecified(user_input) =>
          /\ shown' = "unknown"
          /\ config' = config
          /\ configFile' = configFile
          /\ history' = history
          /\ running' = <<>>
          /\ pc' = "await"
          /\ outcome' = "running" ]_vars

K_timeout == <<"t", "i", "m", "e", "o", "u", "t">>

\* C8 witness: "/config timeout" answered as unknown after "/config timeout 30",
\* with timeout still 30 in memory and on disk
C8_Witness ==
    /\ pc = "await" /\ shown = "unknown"
    /\ user_input = <<"/", "c", "o", "n", "f", "i", "g", " ", "t", "i", "m", "e", "o", "u", "t">>
    /\ K_timeout \in DOMAIN config /\ config[K_timeout] = PyInt(30)
    /\ configFile.st = "ok"
    /\ K_timeout \in DOMAIN Reloaded(configFile)
    /\ Reloaded(configFile)[K_timeout] = PyInt(30)

\* C9: a line is passed to agent.run exactly when its first character is not
\* '/', and then the whole line is passed as it was read; agent.run is called
\* nowhere else.
C9_RoutingByFirstCharacter ==
    [][ /\ (pc = "routing" /\ ~BeginsWithMarker(user_input) =>
              pc' = "executing" /\ running' = <<user_input>>)
        /\ (pc = "routing" /\ BeginsWithMarker(user_input) =>
              pc' # "executing" /\ running' = <<>>)
        /\ (running' # running /\ running' # <<>> => pc = "routing") ]_vars

\* C9 witness: the line " /exit" is the argument of a pending agent.run
C9_Witness ==
    /\ pc = "executing"
    /\ running = << <<" ", "/", "e", "x", "i", "t">> >>

\* C10, as stated: when the program has ended after the tool client was
\* constructed, close_all_sessions has been called.
C10_ShutdownAlwaysCloses == (pc = "done" /\ clientDefined) => closeCalls >= 1

\* C10, amended: once the tool client is constructed the program ends only
\* through the shutdown, and the shutdown calls close_all_sessions once when
\* the client holds at least one session and does not call it when the
\* client holds none, on every path (exit, fatal error, interrupt).
C10_ShutdownClosesIfSessions ==
    [][ /\ (clientDefined /\ pc # "done" /\ pc' = "done" => pc = "finally")
        /\ (pc = "finally" /\ clientDefined /\ sessions > 0 =>
              closeCalls' = closeCalls + 1)
        /\ (pc = "finally" /\ clientDefined /\ sessions = 0 =>
              closeCalls' = closeCalls) ]_vars

\* C10 witness: a fatal error inside the loop after a session was opened, and
\* the shutdown has called close_all_sessions
C10_Witness ==
    /\ pc = "done" /\ outcome = "fatal"
    /\ clientDefined
    /\ closeCalls = 1

\* C11: when a start-up step fails (no API key, the tool client, the LLM,
\* the agent or the session cannot be constructed) the failure is reported
\* and the loop never starts: no line is read and agent.run is never called.
C11_StartupFailureNeverStartsLoop ==
    /\ (~apiKey => pc \notin {"construct", "await", "routing", "executing", "finally"})
    /\ (~apiKey \/ ~agent.built =>
          /\ pc \notin {"await", "routing", "executing"}
          /\ user_input = <<>>
          /\ running = <<>>
          /\ history = <<>>)
    /\ (pc \in {"finally", "done"} /\ (~apiKey \/ ~agent.built) =>
          shown \in {"nokey", "fatal", "unexpected"})

\* C11 witness: the client was constructed, the agent was not, the failure
\* was reported and the program ended without reading a line
C11_Witness ==
    /\ pc = "done" /\ shown = "fatal"
    /\ apiKey /\ clientDefined /\ ~agent.built
    /\ user_input = <<>>

\* C12: load_config on a missing file writes the defaults and returns them,
\* unless the file cannot be written, and then the program ends with no
\* configuration; on a file that cannot be parsed it substitutes no defaults
\* and leaves the file as it is, and the program ends without entering the
\* loop.
C12_LoadConfigFallbackOnlyIfAbsent ==
    [][ pc = "start" =>
          /\ (configFile.st = "absent" =>
                \/ /\ configFile' = FileWith(default_config)
                   /\ config' = default_config
                   /\ pc' = "checkkey"
                \/ /\ configFile'.st # "ok"
                   /\ config' = NoConfig
                   /\ pc' = "done"
                   /\ outcome' = "unexpected")
          /\ (configFile.st = "corrupt" =>
                /\ configFile' = configFile
                /\ config' = NoConfig
                /\ pc' = "done"
                /\ outcome' = "unexpected"
                /\ shown' = "unexpected") ]_vars

\* C12 witness: the program has ended on an unreadable configuration file,
\* with no configuration loaded
C12_Witness ==
    /\ pc = "done" /\ outcome = "unexpected"
    /\ configFile = FileCorrupt
    /\ config = NoConfig

\* C13, as stated: a successful /config <key> <value> leaves every other key
\* with its previous value in memory and in the rewritten file, and stores
\* the key whether or not it is a recognized option.
C13_OnlyKeyChanges ==
    [][ Routes("config") /\ shown' = "updated" =>
          LET key == CmdParts(user_input)[2] IN
            /\ DOMAIN config' = DOMAIN config \cup {key}
            /\ \A k \in DOMAIN config \ {key} : config'[k] = config[k]
            /\ (configFile.st = "ok" =>
                  LET old == Reloaded(configFile)
                      new == Reloaded(configFile')
                  IN /\ DOMAIN new \ {key} = DOMAIN old \ {key}
                     /\ \A k \in DOMAIN old \ {key} : new[k] = old[k]) ]_vars

\* C14: a successful import makes the agent's history exactly the history
\* field of the file, whatever the agent held; an export leaves the agent's
\* history as it is; a step that changes the agent's history changes no file
\* of the archive.
C14_ImportReplacesExportSnapshots ==
    [][ /\ (Routes("import") /\ Importable(files, CmdParts(user_input)[2]) =>
              /\ history' = LoadHistory(files[CmdParts(user_input)[2]].history)
              /\ shown' = "imported")
        /\ (Routes("export") => history' = history)
        /\ (history' # history => files' = files) ]_vars

\* C14 witness: the file of second 0 was imported while the archive also
\* holds the file of second 1 with another history
C14_Witness ==
    /\ pc = "await" /\ shown = "imported"
    /\ ArchiveName(FormatTimestamp(0)) \in DOMAIN files
    /\ ArchiveName(FormatTimestamp(1)) \in DOMAIN files
    /\ history = LoadHistory(files[ArchiveName(FormatTimestamp(0))].history)
    /\ history # LoadHistory(files[ArchiveName(FormatTimestamp(1))].history)

\* C15: an export that returns the path has left, under the name of the
\* current second, the timestamp and the history of this export, also when a
\* file of that name existed (it is overwritten and the directory gains no
\* file); the names of other seconds differ and their files are untouched.
C15_SameSecondOverwrites ==
    [][ Routes("export") /\ history # <<>> /\ shown' = "exported" =>
          LET timestamp == FormatTimestamp(now)
              name == ArchiveName(timestamp)
          IN /\ files'[name] = DumpArchive(timestamp, history)
             /\ (name \in DOMAIN files => DOMAIN files' = DOMAIN files)
             /\ \A t \in 0..MaxTime :
                  t # now =>
                    /\ ArchiveName(FormatTimestamp(t)) # name
                    /\ (ArchiveName(FormatTimestamp(t)) \in DOMAIN files =>
                          files'[ArchiveName(FormatTimestamp(t))]
                            = files[ArchiveName(FormatTimestamp(t))]) ]_vars

\* C15 witness: /export was typed again in the second in which an export
\* wrote its file, and the agent's history is no longer the one in that file
C15_Witness ==
    /\ pc = "routing"
    /\ user_input = <<"/", "e", "x", "p", "o", "r", "t">>
    /\ history # <<>>
    /\ ArchiveName(FormatTimestamp(now)) \in DOMAIN files
    /\ files[ArchiveName(FormatTimestamp(now))].history # DumpHistory(history)

\* C16: the handler of a command line is decided by the lowercased first
\* word after '/' and by whether enough words follow it; further words are
\* ignored.
C16_DispatchByWordAndCount ==
    [][ pc = "routing" /\ BeginsWithMarker(user_input) /\ Split(Tail(user_input)) # <<>> =>
          LET parts == Split(Tail(user_input))
              word == Lower(parts[1])
              nargs == Len(parts) - 1
          IN /\ (word \in {W_exit, W_quit} =>
                   pc' = "finally" /\ outcome' = "exit" /\ shown' = "ending")
             /\ (word = W_clear =>
                   pc' = "await" /\ history' = <<>> /\ shown' = "cleared")
             /\ (word = W_export => shown' \in {"noexport", "exported", "fatal"})
             /\ (word = W_import /\ nargs >= 1 =>
                   /\ shown' \in {"imported", "importerr"}
                   /\ history' = ImportHistory(files, parts[2], history).history)
             /\ (word = W_config /\ nargs >= 2 =>
                   /\ shown' \in {"updated", "cfgerr_value", "cfgerr_io"}
                   /\ (shown' = "updated" =>
                         config' = DictSet(config, parts[2], Convert(parts[3]).value)))
             /\ (word = W_help => pc' = "await" /\ shown' = "help") ]_vars

\* C16 witness: "/config timeout 30 extra" has set timeout to 30
C16_Witness ==
    /\ pc = "await" /\ shown = "updated"
    /\ user_input = <<"/", "c", "o", "n", "f", "i", "g", " ", "t", "i", "m", "e", "o", "u", "t", " ", "3", "0", " ", "e", "x", "t", "r", "a">>
    /\ K_timeout \in DOMAIN config
    /\ config[K_timeout] = PyInt(30)

\* C17: at most one call of agent.run is pending, and while one is pending
\* no line is awaited, read or routed and neither the configuration nor the
\* archive changes; the pending call only ends.
C17_OneTurnAtATime ==
    [][ /\ Len(running') <= 1
        /\ (running # <<>> =>
              /\ pc \notin {"await", "routing"}
              /\ user_input' = user_input
              /\ pc' # "routing"
              /\ config' = config
              /\ configFile' = configFile
              /\ files' = files
              /\ running' \in {running, <<>>}) ]_vars

\* C17 witness: a second chat turn is pending after a first one was answered
C17_Witness ==
    /\ pc = "executing"
    /\ Len(running) = 1
    /\ history # <<>>

\* C18: the agent takes its model, step budget and tool configuration from
\* the configuration when it is constructed and keeps them from then on; a
\* /config update changes the stored configuration only.
C18_AgentFixedAtStartup ==
    [][ /\ (~agent.built /\ agent'.built =>
              /\ agent'.model = config[K_model]
              /\ agent'.max_steps = config[K_max_steps]
              /\ agent'.config_file = config[K_config_file])
        /\ (agent.built => agent' = agent) ]_vars

\* C18 witness: a chat turn is pending after max_steps and model were
\* updated, and the agent still has the values of the start
C18_Witness ==
    /\ pc = "executing"
    /\ {K_max_steps, K_model} \subseteq DOMAIN config
    /\ config[K_max_steps] = PyInt(7)
    /\ agent.max_steps = PyInt(15)
    /\ config[K_model] # agent.model
    /\ agent.model = default_config[K_model]

\* C19: /clear empties the agent's history and changes neither the
\* configuration (memory or disk) nor the archive; an empty history becomes
\* non-empty only by a chat turn or a successful import; /export on an empty
\* history reports that there is nothing to export and writes no file.
C19_ClearThenExportWritesNothing ==
    [][ /\ (Routes("clear") =>
              /\ history' = <<>>
              /\ config' = config
              /\ configFile' = configFile
              /\ files' = files)
        /\ (history = <<>> /\ history' # <<>> =>
              pc = "executing" \/ (Routes("import") /\ shown' = "imported"))
        /\ (Routes("export") /\ history = <<>> =>
              shown' = "noexport" /\ files' = files /\ pc' = "await") ]_vars

\* C19 witness: a history was exported, then cleared, and /export reported
\* that there is nothing to export
C19_Witness ==
    /\ pc = "await" /\ shown = "noexport"
    /\ user_input = <<"/", "e", "x", "p", "o", "r", "t">>
    /\ history = <<>>
    /\ ArchiveName(FormatTimestamp(0)) \in DOMAIN files

Next ==
    \/ LoadConfig
    \/ CheckApiKey
    \/ Construct
    \/ ReadInput
    \/ InputEOF
    \/ Interrupt
    \/ Tick
    \/ CmdNoWord
    \/ CmdExit
    \/ CmdClear
    \/ CmdExport
    \/ CmdImport
    \/ CmdConfig
    \/ CmdHelp
    \/ CmdUnknown
    \/ StartChat
    \/ AgentReturn
    \/ AgentFail
    \/ Finally

Spec == Init /\ [][Next]_vars
====
